---- MODULE Spec2Model ----
(***************************************************************************)
(* The remote GPIO proxy of nodecg-io: the server-side RaspberryPiClient   *)
(* (shadow table, read promises, interrupt bindings, replay on             *)
(* connection), the socket.io server objects it is attached to, the        *)
(* RaspberrypiService that creates and stops the proxies (activeClient),   *)
(* and the pin dispatcher of the agent that runs on the device.            *)
(***************************************************************************)
EXTENDS Integers, Sequences, FiniteSets, TLC

(***************************************************************************)
(* Bounds of the model.                                                    *)
(***************************************************************************)
\* RaspberryPiClient instances the service creates in one run.
MaxClients == 2
\* Promises of read() / getValue() that are unsettled at the same time.
MaxPromises == 2
\* Promises of waitForConnection() that are unsettled at the same time.
MaxWaits == 1
\* Calls the consumers of the service's clients make in one run of SpecArbiter.
MaxCalls == 2

(***************************************************************************)
(* Inputs.                                                                 *)
(***************************************************************************)
\* Pin ids the consumers and the peers name.
PinIds == {1, 2}
\* type BinaryValue = 0 | 1
BinaryValue == {0, 1}
\* Numbers a consumer hands to writePwm(id, value: number).
PwmValues == {255, 300}
\* Numbers a peer sends as the value of a read or interrupt message.
PeerValues == {0, 1}
\* Consumer callbacks handed to setInterruptCallback.
Callbacks == {"f", "g"}
\* Agents (socket.io clients) that connect to the server.
Peers == {"pi1", "pi2"}
\* Namespace names a configuration may name.
DefaultNamespace == "/raspberrypi"
NsNames == {DefaultNamespace, "/gpio"}

\* Numbers a proxy (or any server) sends the agent as the value of a write.
AgentWriteValues == {0, 1, 2}
\* Numbers a proxy (or any server) sends the agent as the value of a writePwm.
AgentPwmValues == {0 - 1, 255, 256}

\* pin.callback === undefined
NoCallback == "none"
\* this.pins[id] === undefined
NoPin == [mode |-> "none", value |-> 0, callback |-> NoCallback]

\* The messages a peer sends: {id, value}; isNum is
\* typeof id === "number" && typeof value === "number".
PeerMessages ==
    {[id |-> i, value |-> v, isNum |-> TRUE] : i \in PinIds, v \in PeerValues}
    \cup {[id |-> i, value |-> 0, isNum |-> FALSE] : i \in PinIds}

VARIABLES
    nsps,          \* server.nsps: namespace name -> namespace object (0: no entry)
    namespaces,    \* the Namespace objects created by server.of, in creation order
    clients,       \* the RaspberryPiClient instances, in creation order
    activeClient,  \* let activeClient (0: undefined)
    sockets,       \* per peer, its server-side Socket: namespace and listeners
    promises,      \* the promises made by getValue: pending, or resolved by the last step
    waits,         \* the promises made by waitForConnection: pending, or resolved by the last step
    sent,          \* the messages namespace.emit sent during the last step
    fired,         \* the consumer callbacks invoked during the last step
    agentPins,     \* the agent's Client.pins: id -> Gpio handle
    hw,            \* the device's pins: level and PWM duty cycle
    hwOps,         \* the pigpio calls the agent made during the last step
    agentSent,     \* the messages the agent's socket.emit sent during the last step
    agentRecv,     \* the message the agent's socket received in the last step
    calls,         \* the consumer calls counted so far (SpecArbiter)
    lastWrite,     \* per pin id, the consumer's most recent write(id, value) call
    bindings,      \* per pin id, the callbacks of the consumer's last two setInterruptCallback calls
    connects,      \* the connection events of client 1 so far: 0, 1, or 2 for two and more
    net,           \* the channel between client 1 and the agent pi1: the messages in flight
    link,          \* the agent's socket: its state and the pending timers of reconnect()
    validation,    \* the service's last validateConfig call: its config and its result
    gpioPins       \* the local-GPIO service's last createClient call and the device's open pins

serverVars == <<nsps, namespaces, clients, activeClient, sockets, promises,
                waits, sent, fired>>
agentVars == <<agentPins, hw, hwOps, agentSent, agentRecv>>
historyVars == <<calls, lastWrite, bindings, connects, net>>
serviceVars == <<link, validation, gpioPins>>
vars == <<serverVars, agentVars, historyVars, serviceVars>>

ClientIds == 1..Len(clients)

RECURSIVE SetToSeq(_)
\* The elements of a set of numbers in ascending order.
SetToSeq(S) ==
    IF S = {} THEN <<>>
    ELSE LET m == CHOOSE x \in S : \A y \in S : x <= y
         IN <<m>> \o SetToSeq(S \ {m})

(***************************************************************************)
(* RaspberryPiClient.  A handler works on h = [clients, promises, sent,    *)
(* fired]: the client objects, the promise table, and what the handler has *)
(* emitted and invoked so far.  p is the client (this), to the sockets in  *)
(* this.namespace.connected, which receive what namespace.emit sends.      *)
(***************************************************************************)
getOrCreatePin(h, p, id, mode) ==
    IF h.clients[p].pins[id].mode = "none"
    THEN [h EXCEPT !.clients[p].pins[id] =
                        [mode |-> mode, value |-> 0, callback |-> NoCallback],
                   !.clients[p].order = Append(@, id)]
    ELSE h

\* this.namespace.emit(ev, {id, value}): a broadcast to the connected sockets.
emit(h, p, to, ev, id, value) ==
    [h EXCEPT !.sent = Append(@, [from |-> p, ev |-> ev, id |-> id,
                                  value |-> value, to |-> to])]

\* write without pin.value = value.
write_NoShadow(h, p, to, id, value) ==
    emit(getOrCreatePin(h, p, id, "out"), p, to, "write", id, value)

write(h, p, to, id, value) ==
    LET h1 == getOrCreatePin(h, p, id, "out")
        h2 == [h1 EXCEPT !.clients[p].pins[id].value = value]
    IN emit(h2, p, to, "write", id, value)

writePwm(h, p, to, id, value) ==
    LET h1 == getOrCreatePin(h, p, id, "pwm")
        h2 == [h1 EXCEPT !.clients[p].pins[id].value = value]
    IN emit(h2, p, to, "writePwm", id, value)

\* A slot of the promise table that holds no promise.
NoPromise == [state |-> "free", client |-> 0, id |-> 0, value |-> 0]
FreeSlots(ps) == {k \in 1..MaxPromises : ps[k].state = "free"}

\* A promise the last step resolved has been handed to its consumer: the
\* table keeps the unsettled promises only.
Sweep(ps) ==
    [k \in 1..MaxPromises |-> IF ps[k].state = "resolved" THEN NoPromise ELSE ps[k]]

\* getValue whose listener takes the place of the listeners of the event.
getValue_LastWins(h, p, id) ==
    IF FreeSlots(h.promises) = {} THEN [h EXCEPT !.full = TRUE]
    ELSE LET k == CHOOSE x \in FreeSlots(h.promises) :
                      \A y \in FreeSlots(h.promises) : x <= y
         IN [h EXCEPT !.promises[k] = [state |-> "pending", client |-> p,
                                       id |-> id, value |-> 0],
                      !.clients[p].read[id] = <<k>>]

\* new Promise(resolve => this.events.once(`read_${id}`, resolve))
\* (h.full: the table has no slot left for the promise.)
getValue(h, p, id) ==
    IF FreeSlots(h.promises) = {} THEN [h EXCEPT !.full = TRUE]
    ELSE LET k == CHOOSE x \in FreeSlots(h.promises) :
                      \A y \in FreeSlots(h.promises) : x <= y
         IN [h EXCEPT !.promises[k] = [state |-> "pending", client |-> p,
                                       id |-> id, value |-> 0],
                      !.clients[p].read[id] = Append(@, k)]

read(h, p, to, id) ==
    LET h1 == getOrCreatePin(h, p, id, "in")
        h2 == getValue(h1, p, id)
    IN emit(h2, p, to, "read", id, 0)

\* setInterruptCallback without removeAllListeners(eventName).
setInterruptCallback_KeepListeners(h, p, to, id, callback) ==
    LET h1 == getOrCreatePin(h, p, id, "in")
        h2 == [h1 EXCEPT !.clients[p].pins[id].callback = callback]
        h3 == [h2 EXCEPT !.clients[p].interrupt[id] = Append(@, callback)]
    IN emit(h3, p, to, "interrupt", id, 0)

setInterruptCallback(h, p, to, id, callback) ==
    LET h1 == getOrCreatePin(h, p, id, "in")
        h2 == [h1 EXCEPT !.clients[p].pins[id].callback = callback]
        \* removeAllListeners(eventName); addListener(eventName, callback)
        h3 == [h2 EXCEPT !.clients[p].interrupt[id] = Append(<<>>, callback)]
    IN emit(h3, p, to, "interrupt", id, 0)

\* resolve(value) of the promises in ks; a settled promise stays as it is.
resolveAll(ps, ks, value) ==
    [k \in 1..MaxPromises |->
        IF (\E i \in 1..Len(ks) : ks[i] = k) /\ ps[k].state = "pending"
        THEN [ps[k] EXCEPT !.state = "resolved", !.value = value]
        ELSE ps[k]]

\* handleReadResponse that emits one event for the reads of every id.
handleReadResponse_AnyId(h, p, msg) ==
    IF msg.isNum
    THEN LET h1 == getOrCreatePin(h, p, msg.id, "in")
             h2 == [h1 EXCEPT !.clients[p].pins[msg.id].value = msg.value]
             all == SetToSeq({k \in 1..MaxPromises :
                        \E id \in PinIds : \E i \in 1..Len(h2.clients[p].read[id]) :
                            h2.clients[p].read[id][i] = k})
         IN [h2 EXCEPT !.promises = resolveAll(@, all, msg.value),
                       !.clients[p].read = [id \in PinIds |-> <<>>]]
    ELSE h

handleReadResponse(h, p, msg) ==
    IF msg.isNum
    THEN LET h1 == getOrCreatePin(h, p, msg.id, "in")
             h2 == [h1 EXCEPT !.clients[p].pins[msg.id].value = msg.value]
         \* this.events.emit(`read_${id}`, value): the once listeners run and
         \* are removed.
         IN [h2 EXCEPT !.promises =
                            resolveAll(@, h2.clients[p].read[msg.id], msg.value),
                       !.clients[p].read[msg.id] = <<>>]
    ELSE h

RECURSIVE invoke(_, _, _, _)
\* The listeners cbs of an event called in order with value.
invoke(h, p, cbs, value) ==
    IF cbs = <<>> THEN h
    ELSE invoke([h EXCEPT !.fired = Append(@, [client |-> p,
                                               callback |-> Head(cbs),
                                               value |-> value])],
                p, Tail(cbs), value)

\* handleInterrupt whose listeners are once listeners.
handleInterrupt_Once(h, p, msg) ==
    IF msg.isNum
    THEN [invoke(h, p, h.clients[p].interrupt[msg.id], msg.value)
             EXCEPT !.clients[p].interrupt[msg.id] = <<>>]
    ELSE h

handleInterrupt(h, p, msg) ==
    IF msg.isNum
    THEN invoke(h, p, h.clients[p].interrupt[msg.id], msg.value)
    ELSE h

RECURSIVE replay_NoRead(_, _, _, _)
\* A replay loop that re-sends the outputs and re-arms the interrupts, and
\* re-issues no read request.
replay_NoRead(h, p, to, ids) ==
    IF ids = <<>> THEN h
    ELSE LET id == Head(ids)
             pin == h.clients[p].pins[id]
             h1 == CASE pin.mode = "out" -> write(h, p, to, id, pin.value)
                     [] pin.mode = "pwm" -> writePwm(h, p, to, id, pin.value)
                     [] pin.mode = "in" ->
                            IF pin.callback # NoCallback
                            THEN setInterruptCallback(h, p, to, id, pin.callback)
                            ELSE h
         IN replay_NoRead(h1, p, to, Tail(ids))

RECURSIVE replay(_, _, _, _)
\* The loop of handleConnection over the keys ids of this.pins.
replay(h, p, to, ids) ==
    IF ids = <<>> THEN h
    ELSE LET id == Head(ids)
             pin == h.clients[p].pins[id]
             h1 == CASE pin.mode = "out" -> write(h, p, to, id, pin.value)
                     [] pin.mode = "pwm" -> writePwm(h, p, to, id, pin.value)
                     [] pin.mode = "in" ->
                            IF pin.callback # NoCallback
                            THEN setInterruptCallback(h, p, to, id, pin.callback)
                            ELSE read(h, p, to, id)
         IN replay(h1, p, to, Tail(ids))

\* for (const id in this.pins): integer keys are enumerated in ascending order.
pinKeys(c) == SetToSeq({id \in PinIds : c.pins[id].mode # "none"})

\* handleConnection that replays the first pin record and leaves the others
\* to a later turn of the event loop.
handleConnection_FirstOnly(h, p, to) ==
    LET ids == pinKeys(h.clients[p])
    IN replay(h, p, to, IF ids = <<>> THEN <<>> ELSE <<Head(ids)>>)

\* The replay part of handleConnection; its listener registrations on the
\* new socket are in addListeners.
handleConnection(h, p, to) == replay(h, p, to, pinKeys(h.clients[p]))

\* client.on("read", ...), client.on("interrupt", ...),
\* client.once("disconnect", ...) of handleConnection.
addListeners(sock, p) ==
    [sock EXCEPT !.read = @ \cup {p}, !.interrupt = @ \cup {p},
                 !.disconnect = @ \cup {p}]

cleanupClient(sock, p) ==
    [sock EXCEPT !.read = @ \ {p}, !.interrupt = @ \ {p}]


(***************************************************************************)
(* The socket.io server objects.  s = [nsps, namespaces, sockets].         *)
(***************************************************************************)
NewSocket(n) == [nsp |-> n, read |-> {}, interrupt |-> {}, disconnect |-> {}]

RECURSIVE cleanupAll(_, _)
\* The once("disconnect") listeners ps of a socket: () => this.cleanupClient(client).
cleanupAll(sock, ps) ==
    IF ps = {} THEN sock
    ELSE LET p == CHOOSE x \in ps : TRUE
         IN cleanupAll(cleanupClient(sock, p), ps \ {p})

\* Socket.disconnect() / a closed transport: the socket leaves
\* namespace.connected and its "disconnect" listeners run, once.
disconnect(s, peer) ==
    LET sock == s.sockets[peer]
    IN IF sock.nsp = 0 THEN s
       ELSE [s EXCEPT !.namespaces[sock.nsp].connected = @ \ {peer},
                      !.sockets[peer] =
                          [cleanupAll(sock, sock.disconnect)
                              EXCEPT !.nsp = 0, !.disconnect = {}]]

RECURSIVE stopLoop(_, _, _)
\* for (const key in this.namespace.connected) { disconnect; cleanupClient }
stopLoop(s, p, peers) ==
    IF peers = {} THEN s
    ELSE LET peer == CHOOSE x \in peers : TRUE
             s1 == disconnect(s, peer)
             s2 == [s1 EXCEPT !.sockets[peer] = cleanupClient(@, p)]
         IN stopLoop(s2, p, peers \ {peer})

\* stop that leaves the sockets of the namespace connected.
stop_NoDisconnect(s, p, n) ==
    LET s2 == [s EXCEPT !.namespaces[n].connection = @ \ {p}]
    IN [s2 EXCEPT !.nsps[s.namespaces[n].name] = 0]

\* stop without this.namespace.off("connection", this.handleConnection).
stop_NoOff(s, p, n) ==
    LET s1 == stopLoop(s, p, s.namespaces[n].connected)
    IN [s1 EXCEPT !.nsps[s.namespaces[n].name] = 0]

\* RaspberryPiClient.stop of client p, whose namespace object is n.
stop(s, p, n) ==
    LET s1 == stopLoop(s, p, s.namespaces[n].connected)
        \* this.namespace.off("connection", this.handleConnection)
        s2 == [s1 EXCEPT !.namespaces[n].connection = @ \ {p}]
    \* delete this.server.nsps[this.namespace.name]
    IN [s2 EXCEPT !.nsps[s.namespaces[n].name] = 0]

\* server.of(name): the registered namespace, or a new one.
of(s, name) ==
    IF s.nsps[name] # 0 THEN s
    ELSE [s EXCEPT !.namespaces = Append(@, [name |-> name, connected |-> {},
                                             connection |-> {}, once |-> {}]),
                   !.nsps[name] = Len(s.namespaces) + 1]

\* new RaspberryPiClient(server, namespace): the fields and the constructor.
NewClient(n) ==
    [namespace |-> n,
     pins |-> [id \in PinIds |-> NoPin],
     order |-> <<>>,
     read |-> [id \in PinIds |-> <<>>],
     interrupt |-> [id \in PinIds |-> <<>>]]

S == [nsps |-> nsps, namespaces |-> namespaces, sockets |-> sockets]
H == [clients |-> clients, promises |-> Sweep(promises), sent |-> <<>>,
      fired |-> <<>>, full |-> FALSE]

NoWait == [state |-> "free", client |-> 0]
SweepWaits(ws) ==
    [k \in 1..MaxWaits |-> IF ws[k].state = "resolved" THEN NoWait ELSE ws[k]]
\* No handler of this step settles or makes a promise.
SweepOnly ==
    /\ promises' = Sweep(promises)
    /\ waits' = SweepWaits(waits)
To(p) == namespaces[clients[p].namespace].connected

SetS(s) ==
    /\ nsps' = s.nsps
    /\ namespaces' = s.namespaces
    /\ sockets' = s.sockets

SetH(h) ==
    /\ ~h.full
    /\ clients' = h.clients
    /\ promises' = h.promises
    /\ sent' = h.sent
    /\ fired' = h.fired

\* config.namespace || "/raspberrypi"
namespaceOf(config) == IF config = "" THEN DefaultNamespace ELSE config

(***************************************************************************)
(* RaspberrypiService (activeClient).                                      *)
(***************************************************************************)
\* createClient without the stop of the active client.
createClient_NoStop(config) ==
    /\ Len(clients) < MaxClients
    /\ LET s2 == of(S, namespaceOf(config))
           n == s2.nsps[namespaceOf(config)]
           p == Len(clients) + 1
       IN /\ SetS([s2 EXCEPT !.namespaces[n].connection = @ \cup {p}])
          /\ clients' = Append(clients, NewClient(n))
          /\ activeClient' = p
    /\ sent' = <<>>
    /\ fired' = <<>>
    /\ SweepOnly
    /\ UNCHANGED agentVars

createClient(config) ==
    /\ Len(clients) < MaxClients
    /\ LET s1 == IF activeClient # 0
                 THEN stop(S, activeClient, clients[activeClient].namespace)
                 ELSE S
           s2 == of(s1, namespaceOf(config))
           n == s2.nsps[namespaceOf(config)]
           p == Len(clients) + 1
       IN /\ SetS([s2 EXCEPT !.namespaces[n].connection = @ \cup {p}])
          /\ clients' = Append(clients, NewClient(n))
          /\ activeClient' = p
    /\ sent' = <<>>
    /\ fired' = <<>>
    /\ SweepOnly
    /\ UNCHANGED agentVars

\* stopClient that stops the raw client of any handle.
stopClient_AnyHandle(p) ==
    /\ p \in ClientIds
    /\ SetS(stop(S, p, clients[p].namespace))
    /\ sent' = <<>>
    /\ fired' = <<>>
    /\ SweepOnly
    /\ UNCHANGED <<clients, activeClient, agentVars>>

stopClient(p) ==
    /\ p \in ClientIds
    /\ IF p = activeClient
       THEN SetS(stop(S, p, clients[p].namespace))
       ELSE UNCHANGED <<nsps, namespaces, sockets>>
    /\ sent' = <<>>
    /\ fired' = <<>>
    /\ SweepOnly
    /\ UNCHANGED <<clients, activeClient, agentVars>>

(***************************************************************************)
(* The service's configuration.  A value of config.namespace is its type   *)
(* and, for a string, its text (for a number, its decimal text).           *)
(***************************************************************************)
Absent == [type |-> "undefined", s |-> ""]

NamespaceValues ==
    {Absent, [type |-> "null", s |-> ""], [type |-> "number", s |-> "0"],
     [type |-> "number", s |-> "5"]}
    \cup {[type |-> "string", s |-> t] :
             t \in {"", "/", "/raspberrypi", "/gpio", "gpio", "raspberrypi/"}}

\* config.namespace[0]
FirstChar(t) == IF Len(t) = 0 THEN "undefined" ELSE SubSeq(t, 1, 1)

\* validateConfig without the test of the length.
validateConfig_NoLength(config) ==
    IF config.type = "string" /\ FirstChar(config.s) # "/"
    THEN "error"
    ELSE "success"

validateConfig(config) ==
    IF config.type = "string" /\ Len(config.s) > 0 /\ FirstChar(config.s) # "/"
    THEN "error"
    ELSE "success"

\* The operand config.namespace of config.namespace || "/raspberrypi" is truthy.
Truthy(v) ==
    \/ v.type = "string" /\ v.s # ""
    \/ v.type = "number" /\ v.s # "0"

\* No validateConfig call and no createClient call yet.
NoValidation ==
    [called |-> FALSE, config |-> Absent, result |-> "none",
     created |-> FALSE, from |-> Absent]

\* The framework validates a configuration.
Service_validateConfig(v) ==
    /\ validation' = [validation EXCEPT !.called = TRUE, !.config = v,
                                        !.result = validateConfig(v)]
    /\ UNCHANGED <<serverVars, agentVars, historyVars, link, gpioPins>>

\* The framework creates the client of the configuration it has validated;
\* the namespaces are those of NsNames.
Service_createClient(v) ==
    /\ validation.called
    /\ validation.config = v
    /\ validation.result = "success"
    /\ namespaceOf(IF Truthy(v) THEN v.s ELSE "") \in NsNames
    /\ createClient(IF Truthy(v) THEN v.s ELSE "")
    /\ validation' = [validation EXCEPT !.created = TRUE, !.from = v]
    /\ UNCHANGED <<historyVars, link, gpioPins>>

(***************************************************************************)
(* The local-GPIO service (src/nodecg-io-spotify/extension/index.ts        *)
(* 145-206): createClient opens one onoff Gpio handle per configured pin.  *)
(* A configured pin id is a number, whole or not, or no number at all.     *)
(* gpioPins records the last createClient call: its config.pins, its       *)
(* outcome ("success", "error", or "throw" for an exception that leaves    *)
(* createClient), the ids of the map gpioPins that the client returns,     *)
(* and exported, the pins of the device that are exported.  new Gpio is    *)
(* taken to return a handle for every id of the range.                     *)
(***************************************************************************)
MIN_PIN_ID == 0
MAX_PIN_ID == 27

\* config.pins has at most this many entries.
MaxPins == 2

LocalPinIds ==
    {[kind |-> "integer", n |-> k] : k \in {0 - 1, 0, 27, 28}}
    \cup {[kind |-> "fraction", n |-> 1], [kind |-> "string", n |-> 5]}

RECURSIVE SeqsOf(_, _)
\* The sequences of length n over the set xs.
SeqsOf(xs, n) ==
    IF n = 0 THEN {<<>>}
    ELSE {Append(q, x) : q \in SeqsOf(xs, n - 1), x \in xs}

\* The configurations that validateConfig accepts: at least one pin.
PinConfigs == UNION {SeqsOf(LocalPinIds, n) : n \in 1..MaxPins}

\* Number.isInteger(pin.id)
isInteger(pin) == pin.kind = "integer"

RECURSIVE openPins(_, _, _)
\* for (const pin of config.pins) { ... }: the loop from entry i on, r.ids the
\* keys of gpioPins and r.exported the pins exported so far.
openPins(pins, i, r) ==
    IF i > Len(pins) THEN r
    ELSE IF ~isInteger(pins[i]) \/ pins[i].n < MIN_PIN_ID \/ pins[i].n > MAX_PIN_ID
         THEN [r EXCEPT !.threw = TRUE]
         ELSE openPins(pins, i + 1,
                       [r EXCEPT !.ids = @ \cup {pins[i].n},
                                 !.exported = @ \cup {pins[i].n}])

\* createClient without try and catch.
tryCatch_Rethrow(r) ==
    IF r.threw THEN [result |-> "throw", ids |-> {}]
    ELSE [result |-> "success", ids |-> r.ids]

\* try { ... return success({getRawClient() {return gpioPins}}) }
\* catch (err) { return error(err.toString()) }
tryCatch(r) ==
    IF r.threw THEN [result |-> "error", ids |-> {}]
    ELSE [result |-> "success", ids |-> r.ids]

\* No createClient call of the local-GPIO service yet.
NoLocal ==
    [called |-> FALSE, config |-> <<>>, result |-> "none", ids |-> {},
     exported |-> {}]

\* createClient(nodecg)(config) of the local-GPIO service.
Local_createClient(pins) ==
    /\ LET r == openPins(pins, 1, [threw |-> FALSE, ids |-> {},
                                   exported |-> gpioPins.exported])
           c == tryCatch(r)
       IN gpioPins' = [called |-> TRUE, config |-> pins, result |-> c.result,
                       ids |-> c.ids, exported |-> r.exported]
    /\ UNCHANGED <<serverVars, agentVars, historyVars, link, validation>>

\* stopClient(client) of the local-GPIO service: unexport of every handle.
Local_stopClient ==
    /\ gpioPins.result = "success"
    /\ gpioPins' = [gpioPins EXCEPT !.result = "stopped",
                                    !.exported = @ \ gpioPins.ids]
    /\ UNCHANGED <<serverVars, agentVars, historyVars, link, validation>>

(***************************************************************************)
(* The consumers' calls on the raw client p.                               *)
(***************************************************************************)
Call_write(p, id, value) ==
    /\ p \in ClientIds
    /\ SetH(write(H, p, To(p), id, value))
    /\ waits' = SweepWaits(waits)
    /\ UNCHANGED <<nsps, namespaces, activeClient, sockets, agentVars>>

Call_writePwm(p, id, value) ==
    /\ p \in ClientIds
    /\ SetH(writePwm(H, p, To(p), id, value))
    /\ waits' = SweepWaits(waits)
    /\ UNCHANGED <<nsps, namespaces, activeClient, sockets, agentVars>>

Call_read(p, id) ==
    /\ p \in ClientIds
    /\ SetH(read(H, p, To(p), id))
    /\ waits' = SweepWaits(waits)
    /\ UNCHANGED <<nsps, namespaces, activeClient, sockets, agentVars>>

Call_setInterruptCallback(p, id, callback) ==
    /\ p \in ClientIds
    /\ SetH(setInterruptCallback(H, p, To(p), id, callback))
    /\ waits' = SweepWaits(waits)
    /\ UNCHANGED <<nsps, namespaces, activeClient, sockets, agentVars>>

\* waitForConnection that waits for the next connection event in any case.
Call_waitForConnection_NextEvent(p) ==
    /\ p \in ClientIds
    /\ \E k \in 1..MaxWaits :
          /\ SweepWaits(waits)[k].state = "free"
          /\ \A j \in 1..(k - 1) : SweepWaits(waits)[j].state # "free"
          /\ waits' = [SweepWaits(waits) EXCEPT
                          ![k] = [state |-> "pending", client |-> p]]
          /\ namespaces' = [namespaces EXCEPT ![clients[p].namespace].once = @ \cup {k}]
    /\ sent' = <<>>
    /\ fired' = <<>>
    /\ promises' = Sweep(promises)
    /\ UNCHANGED <<nsps, clients, activeClient, sockets, agentVars>>

Call_waitForConnection(p) ==
    /\ p \in ClientIds
    /\ \E k \in 1..MaxWaits :
          /\ SweepWaits(waits)[k].state = "free"
          /\ \A j \in 1..(k - 1) : SweepWaits(waits)[j].state # "free"
          /\ LET n == clients[p].namespace
             IN IF Cardinality(namespaces[n].connected) > 0
                THEN /\ waits' = [SweepWaits(waits) EXCEPT
                                     ![k] = [state |-> "resolved", client |-> p]]
                     /\ UNCHANGED namespaces
                ELSE /\ waits' = [SweepWaits(waits) EXCEPT
                                     ![k] = [state |-> "pending", client |-> p]]
                     \* this.namespace.once("connection", resolve)
                     /\ namespaces' = [namespaces EXCEPT ![n].once = @ \cup {k}]
    /\ sent' = <<>>
    /\ fired' = <<>>
    /\ promises' = Sweep(promises)
    /\ UNCHANGED <<nsps, clients, activeClient, sockets, agentVars>>

Call_stop(p) ==
    /\ p \in ClientIds
    /\ SetS(stop(S, p, clients[p].namespace))
    /\ sent' = <<>>
    /\ fired' = <<>>
    /\ SweepOnly
    /\ UNCHANGED <<clients, activeClient, agentVars>>

(***************************************************************************)
(* The events of the server: a peer connects to a namespace, its socket    *)
(* closes, it sends a message.                                             *)
(***************************************************************************)
RECURSIVE connectionListeners(_, _, _)
\* The handleConnection listeners ps of the namespace, in registration order.
connectionListeners(h, ps, to) ==
    IF ps = <<>> THEN h
    ELSE connectionListeners(handleConnection(h, Head(ps), to), Tail(ps), to)

RECURSIVE addAllListeners(_, _)
addAllListeners(sock, ps) ==
    IF ps = <<>> THEN sock
    ELSE addAllListeners(addListeners(sock, Head(ps)), Tail(ps))

\* The "connection" event of the namespace registered under name.
Connection(peer, name) ==
    /\ sockets[peer].nsp = 0
    /\ nsps[name] # 0
    /\ LET n == nsps[name]
           ps == SetToSeq(namespaces[n].connection)
           to == namespaces[n].connected \cup {peer}
           h == connectionListeners(H, ps, to)
       IN /\ SetH(h)
          /\ sockets' = [sockets EXCEPT ![peer] = addAllListeners(NewSocket(n), ps)]
          \* the once("connection", resolve) listeners of waitForConnection
          /\ namespaces' = [namespaces EXCEPT ![n].connected = to, ![n].once = {}]
          /\ waits' = [k \in 1..MaxWaits |->
                          IF k \in namespaces[n].once
                          THEN [waits[k] EXCEPT !.state = "resolved"]
                          ELSE SweepWaits(waits)[k]]
    /\ UNCHANGED <<nsps, activeClient, agentVars>>

\* The peer's socket closes (the agent went away, the transport dropped).
Disconnect(peer) ==
    /\ sockets[peer].nsp # 0
    /\ SetS(disconnect(S, peer))
    /\ sent' = <<>>
    /\ fired' = <<>>
    /\ SweepOnly
    /\ UNCHANGED <<clients, activeClient, agentVars>>

RECURSIVE readListeners(_, _, _)
readListeners(h, ps, msg) ==
    IF ps = <<>> THEN h
    ELSE readListeners(handleReadResponse(h, Head(ps), msg), Tail(ps), msg)

RECURSIVE interruptListeners(_, _, _)
interruptListeners(h, ps, msg) ==
    IF ps = <<>> THEN h
    ELSE interruptListeners(handleInterrupt(h, Head(ps), msg), Tail(ps), msg)

\* A "read" message {id, value} arrives on the peer's socket.
Recv_read(peer, msg) ==
    /\ sockets[peer].nsp # 0
    /\ SetH(readListeners(H, SetToSeq(sockets[peer].read), msg))
    /\ waits' = SweepWaits(waits)
    /\ UNCHANGED <<nsps, namespaces, activeClient, sockets, agentVars>>

\* An "interrupt" message {id, value} arrives on the peer's socket.
Recv_interrupt(peer, msg) ==
    /\ sockets[peer].nsp # 0
    /\ SetH(interruptListeners(H, SetToSeq(sockets[peer].interrupt), msg))
    /\ waits' = SweepWaits(waits)
    /\ UNCHANGED <<nsps, namespaces, activeClient, sockets, agentVars>>

\* The state after the service has created its first client on the default
\* namespace: createClient({}) from Init.
InitProxy ==
    /\ nsps = [name \in NsNames |-> IF name = DefaultNamespace THEN 1 ELSE 0]
    /\ namespaces = <<[name |-> DefaultNamespace, connected |-> {},
                       connection |-> {1}, once |-> {}]>>
    /\ clients = <<NewClient(1)>>
    /\ activeClient = 1
    /\ sockets = [peer \in Peers |-> NewSocket(0)]
    /\ promises = [k \in 1..MaxPromises |-> NoPromise]
    /\ waits = [k \in 1..MaxWaits |-> NoWait]
    /\ sent = <<>>
    /\ fired = <<>>


(***************************************************************************)
(* The agent: class Client of the device process and the message           *)
(* listeners of connect().  A message is m = [id, value, isNum], isNum the *)
(* typeof checks of the listener.  a = [pins, hw, ops, out].               *)
(***************************************************************************)
\* const pwmMaxValue = 255
pwmMaxValue == 255
\* Alert listeners one Gpio handle may hold.
MaxListeners == 2

\* this.pins[id] === undefined
NoGpio == [mode |-> "none", alert |-> FALSE, listeners |-> 0, filter |-> FALSE]
\* A pin no PWM has been started on.
NoDuty == 0 - 1

\* new Gpio(id, {mode, alert}) when the id has no handle; the handle as it is
\* otherwise.
getPin(a, id, mode, alert) ==
    IF a.pins[id].mode = "none"
    THEN [a EXCEPT !.pins[id] = [mode |-> mode, alert |-> alert,
                                 listeners |-> 0, filter |-> FALSE],
                   !.ops = Append(@, [op |-> "open", id |-> id, value |-> 0])]
    ELSE a

Client_read(a, id) ==
    LET a1 == getPin(a, id, "in", FALSE)
    IN [a1 EXCEPT !.ops = Append(@, [op |-> "digitalRead", id |-> id,
                                     value |-> a1.hw[id].level])]

\* write that opens the pin and leaves its level alone.
Client_write_NoLevel(a, id, value) ==
    IF value = 0 \/ value = 1
    THEN getPin(a, id, "out", FALSE)
    ELSE a

Client_write(a, id, value) ==
    IF value = 0 \/ value = 1
    THEN LET a1 == getPin(a, id, "out", FALSE)
         IN [a1 EXCEPT !.hw[id].level = value,
                       !.ops = Append(@, [op |-> "digitalWrite", id |-> id,
                                          value |-> value])]
    ELSE a

\* writePwm without the check of the range.
Client_writePwm_NoCheck(a, id, value) ==
    LET a1 == getPin(a, id, "out", FALSE)
    IN [a1 EXCEPT !.hw[id].duty = value,
                  !.ops = Append(@, [op |-> "pwmWrite", id |-> id,
                                     value |-> value])]

Client_writePwm(a, id, value) ==
    IF value >= 0 /\ value <= pwmMaxValue
    THEN LET a1 == getPin(a, id, "out", FALSE)
         IN [a1 EXCEPT !.hw[id].duty = value,
                       !.ops = Append(@, [op |-> "pwmWrite", id |-> id,
                                          value |-> value])]
    ELSE a

Client_setInterruptCallback(a, id) ==
    LET a1 == getPin(a, id, "in", TRUE)
    IN [a1 EXCEPT !.pins[id].filter = TRUE,
                  !.pins[id].listeners = @ + 1,
                  !.ops = Append(@, [op |-> "glitchFilter", id |-> id,
                                     value |-> 0])]

A == [pins |-> agentPins, hw |-> hw, ops |-> <<>>, out |-> <<>>]

\* No message: the step was none of the socket's listeners.
NoMessage == [ev |-> "none", id |-> 0, value |-> 0, isNum |-> FALSE]
Received(ev, m) == [ev |-> ev, id |-> m.id, value |-> m.value, isNum |-> m.isNum]

SetA(a) ==
    /\ agentPins' = a.pins
    /\ hw' = a.hw
    /\ hwOps' = a.ops
    /\ agentSent' = a.out

\* The read listener without its socket.emit.
Agent_read_NoAnswer(m) ==
    /\ agentRecv' = Received("read", m)
    /\ SetA(IF m.isNum THEN Client_read(A, m.id) ELSE A)
    /\ UNCHANGED serverVars

\* socket.on("read", ({id}) => ...)
Agent_read(m) ==
    /\ agentRecv' = Received("read", m)
    /\ SetA(IF m.isNum
            THEN LET a1 == Client_read(A, m.id)
                 IN [a1 EXCEPT !.out = Append(@, [ev |-> "read", id |-> m.id,
                                                  value |-> a1.hw[m.id].level])]
            ELSE A)
    /\ UNCHANGED serverVars

\* socket.on("write", ({id, value}) => ...)
Agent_write(m) ==
    /\ agentRecv' = Received("write", m)
    /\ SetA(IF m.isNum THEN Client_write(A, m.id, m.value) ELSE A)
    /\ UNCHANGED serverVars

\* socket.on("writePwm", ({id, value}) => ...)
Agent_writePwm(m) ==
    /\ agentRecv' = Received("writePwm", m)
    /\ SetA(IF m.isNum THEN Client_writePwm(A, m.id, m.value) ELSE A)
    /\ UNCHANGED serverVars

\* socket.on("interrupt", ({id}) => ...)
Agent_interrupt(m) ==
    /\ m.isNum => agentPins[m.id].listeners < MaxListeners
    /\ agentRecv' = Received("interrupt", m)
    /\ SetA(IF m.isNum THEN Client_setInterruptCallback(A, m.id) ELSE A)
    /\ UNCHANGED serverVars

RECURSIVE alertListeners(_, _, _, _)
\* The n "alert" listeners of the pin: socket.emit("interrupt", {id, value}).
alertListeners(a, id, value, n) ==
    IF n = 0 THEN a
    ELSE alertListeners([a EXCEPT !.out = Append(@, [ev |-> "interrupt",
                                                     id |-> id, value |-> value])],
                        id, value, n - 1)

\* The level of a device pin changes from outside; pigpio raises "alert" on
\* a handle that was opened with alert: true.
Edge(id) ==
    /\ agentPins[id].mode # "out"
    /\ agentRecv' = NoMessage
    /\ LET level == 1 - hw[id].level
           a1 == [A EXCEPT !.hw[id].level = level]
       IN SetA(IF agentPins[id].alert
               THEN alertListeners(a1, id, level, agentPins[id].listeners)
               ELSE a1)
    /\ UNCHANGED serverVars

\* A number outside the range of the platform's pin ids, 0..27.
InvalidPinId == MAX_PIN_ID + 1
\* The ids the agent can be sent: Client.pins has a key, and the library a
\* line, for whichever number a message names.
AgentIds == PinIds \cup {InvalidPinId}

\* The messages a server sends the agent for pin 1 and for the number outside
\* the range.
IdMessages(values) ==
    {[id |-> i, value |-> v, isNum |-> TRUE] : i \in {1, InvalidPinId}, v \in values}
    \cup {[id |-> 1, value |-> 0, isNum |-> FALSE]}

\* The messages a server sends the agent.
AgentMessages(values) ==
    {[id |-> i, value |-> v, isNum |-> TRUE] : i \in PinIds, v \in values}
    \cup {[id |-> i, value |-> 0, isNum |-> FALSE] : i \in PinIds}

(***************************************************************************)
(* The agent's socket (connect, client index.ts 30-58).  link.state is the *)
(* socket's state: "opening" while an attempt to connect is under way,     *)
(* "connected", or "closed"; link.timers counts the setTimeout callbacks   *)
(* of reconnect() that have not run yet.  The socket library raises the    *)
(* events; connect() listens to "connect", "error" and "disconnect" only.  *)
(***************************************************************************)
\* Timers of reconnect() pending at the same time.
MaxTimers == 2

\* The reasons the library gives a "disconnect" listener.
DisconnectReasons == {"io server disconnect", "transport close", "ping timeout"}

\* const socket = io(config.url): the socket starts to connect at once.
NewLink == [state |-> "opening", timers |-> 0]

\* reconnect(): setTimeout(() => socket.connect(), config.retryTimeout)
reconnect(l) == [l EXCEPT !.timers = @ + 1]

\* socket.on("connect", ...): a log line.
On_connect ==
    /\ link.state = "opening"
    /\ link' = [link EXCEPT !.state = "connected"]

\* socket.on("error", ...): socket.close(); reconnect()
On_error ==
    /\ link.state # "closed"
    /\ link.timers < MaxTimers
    /\ link' = reconnect([link EXCEPT !.state = "closed"])

\* socket.on("disconnect", (reason) => ...)
On_disconnect(reason) ==
    /\ link.state = "connected"
    /\ link.timers < MaxTimers
    /\ link' = IF reason = "io server disconnect"
               THEN reconnect([link EXCEPT !.state = "closed"])
               ELSE [link EXCEPT !.state = "closed"]

\* An attempt to connect fails and the library reports it by an event other
\* than "error" (connect_error, connect_timeout): connect() has no listener.
On_connect_error ==
    /\ link.state = "opening"
    /\ link' = [link EXCEPT !.state = "closed"]

\* A timer of reconnect() runs: socket.connect(), which leaves a socket
\* alone that is connected or connecting.
Timeout ==
    /\ link.timers > 0
    /\ link' = [state |-> IF link.state = "closed" THEN "opening" ELSE link.state,
                timers |-> link.timers - 1]

\* The library opens a closed socket again by its own reconnection, at the
\* delays of its options: io(config.url) passes it none.
LibraryReconnect ==
    /\ link.state = "closed"
    /\ link' = [link EXCEPT !.state = "opening"]

InitAgent ==
    /\ agentPins = [id \in AgentIds |-> NoGpio]
    /\ hw = [id \in AgentIds |-> [level |-> 0, duty |-> NoDuty]]
    /\ hwOps = <<>>
    /\ agentSent = <<>>
    /\ agentRecv = NoMessage

(***************************************************************************)
(* Specifications.                                                         *)
(***************************************************************************)
\* The server before the service has created a client.
InitServer ==
    /\ nsps = [name \in NsNames |-> 0]
    /\ namespaces = <<>>
    /\ clients = <<>>
    /\ activeClient = 0
    /\ sockets = [peer \in Peers |-> NewSocket(0)]
    /\ promises = [k \in 1..MaxPromises |-> NoPromise]
    /\ waits = [k \in 1..MaxWaits |-> NoWait]
    /\ sent = <<>>
    /\ fired = <<>>

(***************************************************************************)
(* The history of the run, kept beside the program's state: calls counts   *)
(* the consumers' calls; lastWrite[id] is the most recent write(id, value) *)
(* call of the consumer of client 1 (called: there was one; value: its     *)
(* argument) and stored, the value most recently handed to the client for  *)
(* the id by a write call, a writePwm call or a read message it handled;   *)
(* bindings[id] are the callbacks of the last two setInterruptCallback     *)
(* calls for the id on client 1, the most recent one last; connects tells  *)
(* whether client 1 has seen no, one, or several connection events.        *)
(* Beside them net, the channel of the end-to-end specifications: the      *)
(* messages the proxy has sent the agent (down) and the agent the proxy    *)
(* (up) that have not been delivered yet, in the order sent.               *)
(***************************************************************************)
NoWrite == [called |-> FALSE, value |-> 0, stored |-> 0]
\* Nothing in flight.
NoTraffic == [down |-> <<>>, up |-> <<>>]

InitHistory ==
    /\ calls = 0
    /\ lastWrite = [id \in PinIds |-> NoWrite]
    /\ bindings = [id \in PinIds |-> <<>>]
    /\ connects = 0
    /\ net = NoTraffic

\* A step that is no counted call of a consumer.
Uncounted(step) == step /\ UNCHANGED <<historyVars, serviceVars>>
\* A call of a consumer, counted.
Counted(call) ==
    /\ calls < MaxCalls
    /\ call
    /\ calls' = calls + 1
    /\ UNCHANGED <<lastWrite, bindings, connects, net, serviceVars>>
\* The consumer's write(id, value) on client 1, noted.
Noted_write(id, value) ==
    /\ Call_write(1, id, value)
    /\ lastWrite' = [lastWrite EXCEPT
                        ![id] = [called |-> TRUE, value |-> value, stored |-> value]]
    /\ UNCHANGED <<calls, bindings, connects, net, serviceVars>>
\* The consumer's writePwm(id, value) on client 1, noted.
Noted_writePwm(id, value) ==
    /\ Call_writePwm(1, id, value)
    /\ lastWrite' = [lastWrite EXCEPT ![id].stored = value]
    /\ UNCHANGED <<calls, bindings, connects, net, serviceVars>>
\* A "read" message of a peer, noted when client 1 handles it.
Noted_read(peer, msg) ==
    /\ Recv_read(peer, msg)
    /\ lastWrite' = IF 1 \in sockets[peer].read /\ msg.isNum
                    THEN [lastWrite EXCEPT ![msg.id].stored = msg.value]
                    ELSE lastWrite
    /\ UNCHANGED <<calls, bindings, connects, net, serviceVars>>

\* The consumer's setInterruptCallback(id, callback) on client 1, noted.
Noted_setInterruptCallback(id, callback) ==
    /\ Call_setInterruptCallback(1, id, callback)
    /\ bindings' = [bindings EXCEPT
                       ![id] = IF @ = <<>> THEN <<callback>>
                               ELSE <<@[Len(@)], callback>>]
    /\ UNCHANGED <<calls, lastWrite, connects, net, serviceVars>>

\* A connection event of the namespace of client 1, noted.
Noted_Connection(peer) ==
    /\ Connection(peer, DefaultNamespace)
    /\ connects' = IF connects < 2 THEN connects + 1 ELSE connects
    /\ UNCHANGED <<calls, lastWrite, bindings, net, serviceVars>>

\* The agent has made its socket; no service call yet.
InitService ==
    /\ link = NewLink
    /\ validation = NoValidation
    /\ gpioPins = NoLocal

\* One proxy, one pin id, two peers, every call.
Init == InitProxy /\ InitAgent /\ InitHistory /\ InitService

Next ==
    \/ \E v \in BinaryValue : Noted_write(1, v)
    \/ \E v \in PwmValues : Noted_writePwm(1, v)
    \/ Uncounted(Call_read(1, 1))
    \/ \E cb \in Callbacks : Noted_setInterruptCallback(1, cb)
    \/ Uncounted(Call_waitForConnection(1))
    \/ Uncounted(Call_stop(1))
    \/ \E peer \in Peers : Noted_Connection(peer)
    \/ \E peer \in Peers : Uncounted(Disconnect(peer))
    \/ \E peer \in Peers, msg \in PeerMessages :
           msg.id = 1 /\ Noted_read(peer, msg)
    \/ \E peer \in Peers, msg \in PeerMessages :
           msg.id = 1 /\ Uncounted(Recv_interrupt(peer, msg))

Spec == Init /\ [][Next]_vars

\* One proxy, two pin ids, one peer and its read messages: the read promises.
NextRead ==
    \/ \E id \in PinIds : Uncounted(Call_write(1, id, 1))
    \/ \E id \in PinIds : Uncounted(Call_read(1, id))
    \/ \E id \in PinIds : Uncounted(Call_setInterruptCallback(1, id, "f"))
    \/ Uncounted(Call_stop(1))
    \/ Uncounted(Connection("pi1", DefaultNamespace))
    \/ Uncounted(Disconnect("pi1"))
    \/ \E msg \in PeerMessages : Uncounted(Recv_read("pi1", msg))

SpecRead == Init /\ [][NextRead]_vars

\* One proxy, two pin ids, one peer: the consumer waits for the connection
\* and writes, reads and binds callbacks before and after it.
NextReplay ==
    \/ \E id \in PinIds, v \in BinaryValue : Uncounted(Call_write(1, id, v))
    \/ \E id \in PinIds : Uncounted(Call_writePwm(1, id, 255))
    \/ \E id \in PinIds : Uncounted(Call_read(1, id))
    \/ \E id \in PinIds : Uncounted(Call_setInterruptCallback(1, id, "f"))
    \/ Uncounted(Call_waitForConnection(1))
    \/ Uncounted(Connection("pi1", DefaultNamespace))
    \/ Uncounted(Disconnect("pi1"))

SpecReplay == Init /\ [][NextReplay]_vars

\* The service: clients created with the configuration {} and stopped, their
\* consumers calling on pin 1, the active client's and the earlier ones'.
NextArbiter ==
    \/ Uncounted(createClient(""))
    \/ \E p \in ClientIds : Uncounted(stopClient(p))
    \/ \E p \in ClientIds : Counted(Call_write(p, 1, 1))
    \/ \E p \in ClientIds : Counted(Call_writePwm(p, 1, 300))
    \/ \E p \in ClientIds : Counted(Call_read(p, 1))
    \/ \E p \in ClientIds : Counted(Call_setInterruptCallback(p, 1, "f"))
    \/ \E peer \in Peers, name \in NsNames : Uncounted(Connection(peer, name))
    \/ \E peer \in Peers : Uncounted(Disconnect(peer))
    \/ \E peer \in Peers :
           Uncounted(Recv_read(peer, [id |-> 1, value |-> 1, isNum |-> TRUE]))
    \/ \E peer \in Peers :
           Uncounted(Recv_interrupt(peer, [id |-> 1, value |-> 1, isNum |-> TRUE]))

InitArbiter == InitServer /\ InitAgent /\ InitHistory /\ InitService

SpecArbiter == InitArbiter /\ [][NextArbiter]_vars

\* The service and the peers: clients created with the configuration {} or
\* with another namespace, handles stopped in any order, the consumers'
\* writes and reads of pin 1, peers that connect to either namespace and
\* disconnect.
NextSupersede ==
    \/ \E config \in {"", "/gpio"} : Uncounted(createClient(config))
    \/ \E p \in ClientIds : Uncounted(stopClient(p))
    \/ \E p \in ClientIds : Counted(Call_write(p, 1, 1))
    \/ \E p \in ClientIds : Counted(Call_read(p, 1))
    \/ \E peer \in Peers, name \in NsNames : Uncounted(Connection(peer, name))
    \/ \E peer \in Peers : Uncounted(Disconnect(peer))

InitSupersede == InitServer /\ InitAgent /\ InitHistory /\ InitService

SpecSupersede == InitSupersede /\ [][NextSupersede]_vars

\* The service and the raw clients it hands out: any client's consumer may
\* call stop() on it, before or after the service has created the next one.
NextStop ==
    \/ Uncounted(createClient(""))
    \/ \E p \in ClientIds : Uncounted(stopClient(p))
    \/ \E p \in ClientIds : Uncounted(Call_stop(p))
    \/ \E p \in ClientIds : Counted(Call_write(p, 1, 1))
    \/ \E p \in ClientIds : Counted(Call_read(p, 1))
    \/ \E peer \in Peers : Uncounted(Connection(peer, DefaultNamespace))
    \/ \E peer \in Peers : Uncounted(Disconnect(peer))

InitStop == InitServer /\ InitAgent /\ InitHistory /\ InitService

SpecStop == InitStop /\ [][NextStop]_vars

\* The service under the configurations the framework hands it: each is
\* validated, and a client is created for it when it is valid.
NextConfig ==
    \/ \E v \in NamespaceValues : Service_validateConfig(v)
    \/ \E v \in NamespaceValues : Service_createClient(v)
    \/ \E p \in ClientIds : Uncounted(stopClient(p))
    \/ \E peer \in Peers, name \in NsNames : Uncounted(Connection(peer, name))
    \/ \E peer \in Peers : Uncounted(Disconnect(peer))

InitConfig == InitServer /\ InitAgent /\ InitHistory /\ InitService

SpecConfig == InitConfig /\ [][NextConfig]_vars

\* The local-GPIO service under the configurations the framework hands it.
NextLocal ==
    \/ \E pins \in PinConfigs : Local_createClient(pins)
    \/ Local_stopClient

SpecLocal == Init /\ [][NextLocal]_vars

\* A step of the agent's socket alone.
Linked(step) ==
    step /\ UNCHANGED <<serverVars, agentVars, historyVars, validation, gpioPins>>

\* The agent's process: its socket's events and timers, and the messages it
\* handles while the socket is connected.
NextLink ==
    \/ Linked(On_connect)
    \/ Linked(On_error)
    \/ \E reason \in DisconnectReasons : Linked(On_disconnect(reason))
    \/ Linked(On_connect_error)
    \/ Linked(Timeout)
    \/ Linked(LibraryReconnect)
    \/ \E m \in AgentMessages(BinaryValue) :
           link.state = "connected" /\ Uncounted(Agent_write(m))
    \/ \E m \in AgentMessages({0}) :
           link.state = "connected" /\ Uncounted(Agent_read(m))

SpecLink == Init /\ [][NextLink]_vars

\* The agent's pin dispatcher under any sequence of messages and edges.
NextAgent ==
    \/ \E m \in AgentMessages({0}) : Uncounted(Agent_read(m))
    \/ \E m \in AgentMessages(AgentWriteValues) : Uncounted(Agent_write(m))
    \/ \E m \in AgentMessages(AgentPwmValues) : Uncounted(Agent_writePwm(m))
    \/ \E m \in AgentMessages({0}) : Uncounted(Agent_interrupt(m))
    \/ \E id \in PinIds : Uncounted(Edge(id))

SpecAgent == Init /\ [][NextAgent]_vars

\* The agent's pin dispatcher under messages whose id is any number.
NextIds ==
    \/ \E m \in IdMessages({0}) : Uncounted(Agent_read(m))
    \/ \E m \in IdMessages(AgentWriteValues) : Uncounted(Agent_write(m))
    \/ \E m \in IdMessages({255}) : Uncounted(Agent_writePwm(m))
    \/ \E m \in IdMessages({0}) : Uncounted(Agent_interrupt(m))
    \/ Uncounted(Edge(1))

SpecIds == Init /\ [][NextIds]_vars

(***************************************************************************)
(* End to end: client 1 and the agent pi1 joined by the channel net, which *)
(* delivers the messages of each direction in the order sent and loses     *)
(* none while the connection lasts; a message in flight when the           *)
(* connection closes is lost.  A read request carries the slot of the      *)
(* promise that its read() made (tag), and the agent's answer carries the  *)
(* tag of the request it answers: the tag is no part of the message.       *)
(***************************************************************************)
\* Messages of one direction that are in flight at the same time.
MaxInFlight == 2

TheAgent == "pi1"
\* The agent's socket is connected to the namespace of client 1.
AgentLinked == sockets[TheAgent].nsp # 0

\* The promise that this step's read(id) made.
MadeFor(id) ==
    {k \in 1..MaxPromises :
        /\ Sweep(promises)[k].state = "free"
        /\ promises'[k].state = "pending"
        /\ promises'[k].id = id}

RECURSIVE Outgoing(_)
\* The messages of the step's namespace.emit calls that go to the agent.
Outgoing(msgs) ==
    IF msgs = <<>> THEN <<>>
    ELSE LET m == Head(msgs)
             tag == IF m.ev = "read" /\ MadeFor(m.id) # {}
                    THEN CHOOSE k \in MadeFor(m.id) : TRUE ELSE 0
         IN (IF TheAgent \in m.to
             THEN <<[ev |-> m.ev, id |-> m.id, value |-> m.value, tag |-> tag]>>
             ELSE <<>>) \o Outgoing(Tail(msgs))

\* The messages of the agent's socket.emit calls, answers to a request tag.
Answers(msgs, tag) ==
    [i \in 1..Len(msgs) |->
        [ev |-> msgs[i].ev, id |-> msgs[i].id, value |-> msgs[i].value, tag |-> tag]]

\* What the proxy emits in the step goes into the channel.
Down ==
    /\ Len(net.down \o Outgoing(sent')) <= MaxInFlight
    /\ net' = [net EXCEPT !.down = @ \o Outgoing(sent')]

\* The consumer's read(id).
E_read(id) ==
    /\ Call_read(1, id)
    /\ Down
    /\ UNCHANGED <<calls, lastWrite, bindings, connects, serviceVars>>

\* The consumer's write(id, value).
E_write(id, value) ==
    /\ Call_write(1, id, value)
    /\ Down
    /\ lastWrite' = [lastWrite EXCEPT
                        ![id] = [called |-> TRUE, value |-> value, stored |-> value]]
    /\ UNCHANGED <<calls, bindings, connects, serviceVars>>

\* The agent's socket connects: the server raises "connection".
E_Connect ==
    /\ Connection(TheAgent, DefaultNamespace)
    /\ Down
    /\ UNCHANGED <<calls, lastWrite, bindings, connects, serviceVars>>

\* The connection closes.
E_Disconnect ==
    /\ Disconnect(TheAgent)
    /\ net' = NoTraffic
    /\ UNCHANGED <<calls, lastWrite, bindings, connects, serviceVars>>

\* The agent's socket receives the first message in flight.
E_AgentReceive ==
    /\ net.down # <<>>
    /\ Len(net.up) < MaxInFlight
    /\ LET m == Head(net.down)
           msg == [id |-> m.id, value |-> m.value, isNum |-> TRUE]
       IN /\ CASE m.ev = "read" -> Agent_read(msg)
                [] m.ev = "write" -> Agent_write(msg)
                [] m.ev = "writePwm" -> Agent_writePwm(msg)
                [] m.ev = "interrupt" -> Agent_interrupt(msg)
          /\ net' = [down |-> Tail(net.down),
                     up |-> net.up \o Answers(agentSent', m.tag)]
    /\ UNCHANGED <<calls, lastWrite, bindings, connects, serviceVars>>

\* The server's socket receives the first message in flight.
E_ProxyReceive ==
    /\ net.up # <<>>
    /\ LET m == Head(net.up)
           msg == [id |-> m.id, value |-> m.value, isNum |-> TRUE]
       IN CASE m.ev = "read" -> Recv_read(TheAgent, msg)
            [] m.ev = "interrupt" -> Recv_interrupt(TheAgent, msg)
    /\ net' = [net EXCEPT !.up = Tail(@)]
    /\ UNCHANGED <<calls, lastWrite, bindings, connects, serviceVars>>

\* The level of a device pin that the agent does not drive changes.
E_Edge(id) ==
    /\ Edge(id)
    /\ agentPins[id].listeners = 0
    /\ UNCHANGED <<historyVars, serviceVars>>

\* The consumer's setInterruptCallback(id, callback).
E_setInterruptCallback(id, callback) ==
    /\ Call_setInterruptCallback(1, id, callback)
    /\ Down
    /\ bindings' = [bindings EXCEPT
                       ![id] = IF @ = <<>> THEN <<callback>>
                               ELSE <<@[Len(@)], callback>>]
    /\ UNCHANGED <<calls, lastWrite, connects, serviceVars>>

\* The level of a device pin changes while the agent is connected: what its
\* "alert" listeners emit goes into the channel.
E_ArmedEdge(id) ==
    /\ AgentLinked
    /\ Edge(id)
    /\ Len(net.up \o agentSent') <= MaxInFlight
    /\ net' = [net EXCEPT !.up = @ \o Answers(agentSent', 0)]
    /\ UNCHANGED <<calls, lastWrite, bindings, connects, serviceVars>>

\* The interrupts of pin 1, end to end.
NextIrq ==
    \/ E_setInterruptCallback(1, "f")
    \/ E_Connect
    \/ E_Disconnect
    \/ E_AgentReceive
    \/ E_ProxyReceive
    \/ E_ArmedEdge(1)

SpecIrq == Init /\ [][NextIrq]_vars

\* The reads of pin 1 by a consumer, end to end.
NextE2E ==
    \/ E_read(1)
    \/ E_Connect
    \/ E_Disconnect
    \/ E_AgentReceive
    \/ E_ProxyReceive
    \/ E_Edge(1)

\* The writes of both pins by a consumer, end to end: writes, disconnects
\* and reconnects of the agent, and the agent's handling of what arrives.
NextWrite ==
    \/ \E id \in PinIds, v \in BinaryValue : E_write(id, v)
    \/ E_Connect
    \/ E_Disconnect
    \/ E_AgentReceive

SpecWrite == Init /\ [][NextWrite]_vars

\* The agent can register one more "alert" listener for pin id than it has
\* and than the interrupt messages in flight will make it register.
CanArm(id) ==
    agentPins[id].listeners
      + Cardinality({i \in 1..Len(net.down) :
                        net.down[i].ev = "interrupt" /\ net.down[i].id = id})
      < MaxListeners

\* The reads of pin 1 by a consumer that binds a callback to the pin at
\* some time, once, end to end.  The
\* agent is armed no more often than it can register listeners.
NextPending ==
    \/ E_read(1)
    \/ (bindings[1] = <<>> /\ CanArm(1) /\ E_setInterruptCallback(1, "f"))
    \/ ((clients[1].pins[1].callback # NoCallback => CanArm(1)) /\ E_Connect)
    \/ E_Disconnect
    \/ E_AgentReceive
    \/ E_ProxyReceive

\* Each end's event loop handles a message that has arrived.
SpecPending ==
    /\ Init
    /\ [][NextPending]_vars
    /\ WF_vars(E_AgentReceive)
    /\ WF_vars(E_ProxyReceive)

\* Each end's event loop handles a message that has arrived.
SpecE2E ==
    /\ Init
    /\ [][NextE2E]_vars
    /\ WF_vars(E_AgentReceive)
    /\ WF_vars(E_ProxyReceive)

(***************************************************************************)
(* Claims.                                                                 *)
(***************************************************************************)
\* A step in which a peer connects to the namespace of client 1.
ConnectionStep == \E peer \in Peers : Connection(peer, DefaultNamespace)

\* The message {id, value} of event ev is among the messages of the step.
Sent(msgs, ev, id, value) ==
    \E i \in 1..Len(msgs) :
        msgs[i].ev = ev /\ msgs[i].id = id /\ msgs[i].value = value

HandledRead(msg) ==
    /\ Recv_read("pi1", msg)
    /\ msg.isNum
    /\ 1 \in sockets["pi1"].read

\* promise is the promise before, resolved with value.
Resolved(promise, value) == [promise EXCEPT !.state = "resolved", !.value = value]

\* The promises of the listener list ks are pending, each listed once.
PendingOnce(ps, ks) ==
    \A i \in 1..Len(ks) :
        /\ ps[ks[i]].state = "pending"
        /\ \A j \in 1..Len(ks) : ks[j] = ks[i] => j = i

\* C2: the future returned by read(id) is resolved by the first read
\* message {id, value} the proxy receives after the call, with exactly that
\* value; a read message for any other id leaves it pending; a future is
\* resolved by a read message for its id only, and a resolved future is in
\* no listener list, so it is never resolved again.
C2_ReadResolution ==
    [][/\ \A msg \in PeerMessages :
              HandledRead(msg)
              => \A k \in 1..MaxPromises :
                     promises[k].state = "pending"
                     => promises'[k] = IF promises[k].id = msg.id
                                       THEN Resolved(promises[k], msg.value)
                                       ELSE promises[k]
       /\ \A k \in 1..MaxPromises :
              promises'[k].state = "resolved"
              => /\ promises[k].state = "pending"
                 /\ \E msg \in PeerMessages :
                        /\ msg.id = promises[k].id
                        /\ msg.value = promises'[k].value
                        /\ HandledRead(msg)
       /\ \A id \in PinIds : PendingOnce(promises', clients'[1].read[id])]_vars

\* C2 witness: the read message {2, 1} has just resolved the future of
\* read(2) with 1 and left the future of read(1) pending.
C2_Witness ==
    \E k, j \in 1..MaxPromises :
        /\ promises[k] = [state |-> "resolved", client |-> 1, id |-> 2, value |-> 1]
        /\ promises[j] = [state |-> "pending", client |-> 1, id |-> 1, value |-> 0]
        /\ clients[1].pins[2].value = 1

\* The pending promises of read(id) on client 1.
PendingReads(ps, id) ==
    {k \in 1..MaxPromises :
        ps[k].state = "pending" /\ ps[k].client = 1 /\ ps[k].id = id}

\* C3 as stated: at most one read is tracked per pin id, and a read message
\* for id resolves only the future of the latest read(id) and leaves the
\* futures of the earlier ones as they are.
C3_LastReadWins_AsStated ==
    [][/\ \A id \in PinIds : Len(clients'[1].read[id]) <= 1
       /\ \A msg \in PeerMessages :
              (HandledRead(msg) /\ clients[1].read[msg.id] # <<>>)
              => LET ks == clients[1].read[msg.id]
                 IN \A i \in 1..Len(ks) :
                        promises'[ks[i]] = IF i = Len(ks)
                                           THEN Resolved(promises[ks[i]], msg.value)
                                           ELSE promises[ks[i]]]_vars

\* C3 amended: every read(id) is tracked: when read(id) is called again
\* before the earlier read(id) has been resolved, the earlier registration
\* stays beside the later one, and the next read message for id resolves
\* both futures, the earlier and the later, with its value.
C3_EveryReadTracked ==
    [][/\ \A id \in PinIds :
              Call_read(1, id)
              => /\ PendingReads(promises, id) \subseteq PendingReads(promises', id)
                 /\ Cardinality(PendingReads(promises', id))
                        = Cardinality(PendingReads(promises, id)) + 1
       /\ \A id \in PinIds :
              PendingReads(promises', id)
                  = {clients'[1].read[id][i] : i \in 1..Len(clients'[1].read[id])}
       /\ \A msg \in PeerMessages :
              HandledRead(msg)
              => \A k \in PendingReads(promises, msg.id) :
                     promises'[k] = Resolved(promises[k], msg.value)]_vars

\* C3 witness: one read message {1, 1} has just resolved the futures of two
\* read(1) calls.
C3_Witness ==
    /\ MaxPromises >= 2
    /\ promises[1] = [state |-> "resolved", client |-> 1, id |-> 1, value |-> 1]
    /\ promises[2] = [state |-> "resolved", client |-> 1, id |-> 1, value |-> 1]

\* C4: after setInterruptCallback(id, f) and then setInterruptCallback(id, g),
\* every interrupt message {id, value} the proxy receives invokes g, once,
\* and no other callback: the callback invoked is that of the most recent
\* setInterruptCallback call for the id, whatever calls, connects and
\* disconnects came before.
C4_LatestCallbackOnly ==
    [][\A peer \in Peers, msg \in PeerMessages :
          (/\ Recv_interrupt(peer, msg)
           /\ msg.isNum
           /\ 1 \in sockets[peer].interrupt
           /\ bindings[msg.id] # <<>>)
          => fired' = <<[client |-> 1,
                         callback |-> bindings[msg.id][Len(bindings[msg.id])],
                         value |-> msg.value]>>]_vars

\* C4 witness: f was bound to pin 1, then g, and the interrupt message
\* {1, 1} of a connected peer has just invoked g.
C4_Witness ==
    /\ bindings[1] = <<"f", "g">>
    /\ fired = <<[client |-> 1, callback |-> "g", value |-> 1]>>
    /\ \E peer \in Peers : 1 \in sockets[peer].interrupt

\* C5 as stated: writePwm(id, value) with value outside 0..255 emits no
\* message and leaves the pin record of id (existence, mode, value) as it
\* was.
C5_PwmRangeRejected ==
    [][\A id \in PinIds, value \in PwmValues :
          (Call_writePwm(1, id, value) /\ (value < 0 \/ value > 255))
          => /\ sent' = <<>>
             /\ clients'[1].pins[id] = clients[1].pins[id]]_vars

\* C6: on the agent, a write message whose value is not 0 or 1 and a
\* writePwm message whose value is outside 0..255 are no-ops: the agent
\* makes no pigpio call, and its pin handles and the levels and duty cycles
\* of the device's pins stay as they were.
C6_InvalidValueNoOp ==
    [][\A m \in AgentMessages(AgentWriteValues \cup AgentPwmValues) :
          (\/ Agent_write(m) /\ m.isNum /\ m.value \notin {0, 1}
           \/ Agent_writePwm(m) /\ m.isNum /\ (m.value < 0 \/ m.value > 255))
          => /\ hwOps' = <<>>
             /\ agentPins' = agentPins
             /\ hw' = hw]_vars

\* C6 witness: the agent drives pin 1 with duty cycle 255, and the writePwm
\* message {1, 256} it has just received made no pigpio call.
C6_Witness ==
    /\ agentRecv = [ev |-> "writePwm", id |-> 1, value |-> 256, isNum |-> TRUE]
    /\ agentPins[1].mode = "out"
    /\ hw[1].duty = 255
    /\ hwOps = <<>>

\* Client p has no peer and no listener left: what its stop() leaves.
Stopped(p) ==
    LET n == clients[p].namespace
    IN /\ namespaces[n].connected = {}
       /\ p \notin namespaces[n].connection
       /\ \A peer \in Peers :
              p \notin (sockets[peer].read \cup sockets[peer].interrupt)

\* C7: when createClient is called while a proxy A is active, A.stop() has
\* completed (A's peers disconnected, A's message and connection listeners
\* removed) when the new proxy B has registered its connection handler: in
\* every reachable state every proxy other than the active one is stopped,
\* and at most one proxy has a connection handler registered, on one
\* namespace.
C7_SingleConnectionHandler ==
    /\ \A p \in ClientIds : p # activeClient => Stopped(p)
    /\ \A n, m \in 1..Len(namespaces) :
           \A p \in namespaces[n].connection, q \in namespaces[m].connection :
               p = q /\ n = m

\* C7 witness: proxy 1 had a peer (it has handled the peer's read message
\* {1, 1}), proxy 2 was created after it, has its connection handler
\* registered and a peer connected.
C7_Witness ==
    /\ Len(clients) = 2
    /\ activeClient = 2
    /\ clients[1].pins[1] = [mode |-> "in", value |-> 1, callback |-> NoCallback]
    /\ namespaces[clients[2].namespace].connection = {2}
    /\ namespaces[clients[2].namespace].connected # {}

\* A step in which the consumer of client p calls write, writePwm, read or
\* setInterruptCallback.
ConsumerCallOn(p) ==
    \E id \in PinIds :
        \/ \E v \in BinaryValue : Call_write(p, id, v)
        \/ \E v \in PwmValues : Call_writePwm(p, id, v)
        \/ Call_read(p, id)
        \/ \E cb \in Callbacks : Call_setInterruptCallback(p, id, cb)

\* C8: once proxy B is the active one, no message the superseded proxy A
\* emits reaches an agent, whatever calls (write, writePwm, read,
\* setInterruptCallback) its consumer makes; A handles no message and no
\* connection event of a peer: no step invokes a callback of A or resolves
\* a read future of A, and A's shadow table changes and A emits only in a
\* call of its consumer; and the messages of one step, those a connection
\* event triggers included, are the messages of one proxy.
C8_SupersededSilent ==
    [][/\ \A i \in 1..Len(sent') :
              sent'[i].from # activeClient' => sent'[i].to = {}
       /\ \A i, j \in 1..Len(sent') : sent'[i].from = sent'[j].from
       /\ \A p \in ClientIds \ {activeClient} :
              /\ \A i \in 1..Len(fired') : fired'[i].client # p
              /\ \A k \in 1..MaxPromises :
                     promises'[k].client = p => promises'[k].state # "resolved"
              /\ (clients'[p] # clients[p] \/ \E i \in 1..Len(sent') : sent'[i].from = p)
                 => ConsumerCallOn(p)]_vars

\* C8 witness: proxy 2 is active and has a peer connected, and the message
\* the consumer of proxy 1 has just made proxy 1 emit went to no socket.
C8_Witness ==
    /\ activeClient = 2
    /\ namespaces[clients[2].namespace].connected # {}
    /\ Len(sent) = 1
    /\ sent[1].from = 1
    /\ sent[1].to = {}

\* C9: waitForConnection() returns a future that is resolved in the call
\* when a peer is connected and pending otherwise; a pending future stays
\* pending through every step that is no connection event and is resolved
\* by the next connection event of the namespace.
C9_WaitForConnection ==
    [][/\ Call_waitForConnection(1)
          => \E k \in 1..MaxWaits :
                 /\ waits[k].state # "pending"
                 /\ waits'[k].state = IF To(1) # {} THEN "resolved" ELSE "pending"
       /\ \A k \in 1..MaxWaits :
              /\ (waits[k].state = "pending" /\ ConnectionStep)
                 => waits'[k].state = "resolved"
              /\ (waits[k].state = "pending" /\ ~ConnectionStep)
                 => waits'[k].state = "pending"
              /\ (waits[k].state # "pending" /\ waits'[k].state # "free")
                 => Call_waitForConnection(1)]_vars

\* C9 witness: a peer is connected, no connection event was the last step
\* (a replay would have emitted for pin 1), and the future of
\* waitForConnection() is resolved.
C9_Witness ==
    /\ waits[1].state = "resolved"
    /\ To(1) # {}
    /\ clients[1].pins[1].mode # "none"
    /\ sent = <<>>

\* Client p is inert: stopped, and its namespace object is not the one
\* registered under its name.
Inert(p) ==
    /\ Stopped(p)
    /\ nsps[namespaces[clients[p].namespace].name] # clients[p].namespace

\* C10: stop() leaves the proxy inert: every peer of its namespace is
\* disconnected, its read, interrupt and connection handlers are registered
\* nowhere, and its namespace is no longer registered with the server; an
\* inert proxy stays inert: no step resolves a read future, invokes a
\* callback or delivers a message to a peer, and its shadow table changes
\* only in a call of its consumer.
C10_StopInert ==
    [][/\ Call_stop(1) => Inert(1)'
       /\ Inert(1)
          => /\ Inert(1)'
             /\ \A k \in 1..MaxPromises : promises'[k].state # "resolved"
             /\ fired' = <<>>
             /\ \A i \in 1..Len(sent') : sent'[i].to = {}
             /\ clients' # clients => ConsumerCallOn(1)]_vars

\* C10 witness: the proxy had a peer (it has handled the peer's read
\* message {1, 1}) and a callback bound, it is inert, and a read future is
\* still pending.
C10_Witness ==
    /\ Inert(1)
    /\ clients[1].pins[1].mode = "in"
    /\ clients[1].pins[1].value = 1
    /\ clients[1].pins[1].callback # NoCallback
    /\ \E k \in 1..MaxPromises : promises[k].state = "pending"

\* C11 as stated: stop() on a proxy that is already stopped leaves the
\* proxy and the server's channel state (the namespaces registered, their
\* connected sockets and listeners, the sockets' listeners) exactly as they
\* were before the call.
C11_StopIdempotent ==
    [][\A p \in ClientIds :
          (Stopped(p) /\ Call_stop(p))
          => UNCHANGED <<clients, nsps, namespaces, sockets>>]_vars

\* C12: every interrupt message {id, value} of a connected peer invokes the
\* callback bound to id by the most recent setInterruptCallback call, once,
\* with that value, and leaves the binding as it is for the next message;
\* a peer connected to the proxy's namespace carries the proxy's interrupt
\* listener, after a disconnect and reconnect as well; a message for an id
\* that has no callback invokes nothing; the message changes no pin record
\* and makes the proxy emit nothing.
C12_InterruptPersistent ==
    [][/\ \A peer \in Peers :
              sockets'[peer].nsp # 0 => sockets'[peer].interrupt = {1}
       /\ \A peer \in Peers, msg \in PeerMessages :
              (Recv_interrupt(peer, msg) /\ msg.isNum)
              => /\ fired' = IF bindings[msg.id] = <<>> THEN <<>>
                              ELSE <<[client |-> 1,
                                      callback |-> bindings[msg.id][Len(bindings[msg.id])],
                                      value |-> msg.value]>>
                 /\ clients' = clients
                 /\ sent' = <<>>]_vars

\* C12 witness: the proxy has seen a second connection event, one peer is
\* connected, and its interrupt message {1, 0} has just invoked f, the
\* callback bound to pin 1.
C12_Witness ==
    /\ connects = 2
    /\ Cardinality(To(1)) = 1
    /\ bindings[1] = <<"f">>
    /\ fired = <<[client |-> 1, callback |-> "f", value |-> 0]>>

\* C13 as stated: on a connection event the replay messages are emitted in
\* the order in which the pin ids were first referenced on the proxy,
\* whatever the numeric order of the ids.
C13_ReplayInsertionOrder ==
    [][Connection("pi1", DefaultNamespace)
       => /\ Len(sent') = Len(clients[1].order)
          /\ \A i \in 1..Len(sent') : sent'[i].id = clients[1].order[i]]_vars

\* The event and the value of the replay message of a pin record.
ReplayOf(pin) ==
    CASE pin.mode = "out" -> [ev |-> "write", value |-> pin.value]
      [] pin.mode = "pwm" -> [ev |-> "writePwm", value |-> pin.value]
      [] pin.mode = "in" /\ pin.callback # NoCallback -> [ev |-> "interrupt", value |-> 0]
      [] pin.mode = "in" /\ pin.callback = NoCallback -> [ev |-> "read", value |-> 0]

\* The messages msgs are one message for each pin record of client c, that
\* of its mode, and no other message.
ReplayContent(msgs, c) ==
    /\ \A i \in 1..Len(msgs) : c.pins[msgs[i].id].mode # "none"
    /\ \A id \in PinIds :
           c.pins[id].mode # "none"
           => /\ Cardinality({i \in 1..Len(msgs) : msgs[i].id = id}) = 1
              /\ \E i \in 1..Len(msgs) :
                     /\ msgs[i].id = id
                     /\ msgs[i].ev = ReplayOf(c.pins[id]).ev
                     /\ msgs[i].value = ReplayOf(c.pins[id]).value

\* The content of the replay alone: what C14 says of the messages, without
\* what it says of their destination.
ReplayContentOnly ==
    [][ConnectionStep => ReplayContent(sent', clients[1])]_vars

\* C14 as stated: on every connection event the proxy emits exactly one
\* message for each pin record (write for an output pin, writePwm for a pwm
\* pin, interrupt for an input pin with a callback, read for an input pin
\* without one, with the record's value), none for an id without a record,
\* and the messages go to the newly connected peer.
C14_ReplayToNewPeer ==
    [][\A peer \in Peers :
          Connection(peer, DefaultNamespace)
          => /\ ReplayContent(sent', clients[1])
             /\ \A i \in 1..Len(sent') : sent'[i].to = {peer}]_vars

\* The agent is connected to the proxy.
AgentConnected == sockets[TheAgent].nsp # 0

\* The pigpio calls op of pin id among ops.
OpsOf(ops, op, id) == {i \in 1..Len(ops) : ops[i].op = op /\ ops[i].id = id}

\* What C15 says of the request and of the agent: a read(id) with the agent
\* connected puts one read request {id} in flight, and the agent answers a
\* read request {id} with one digital read of pin id and one read message
\* {id, value}, value the level read.
ReadRequestAnswered ==
    /\ (E_read(1) /\ AgentConnected)
       => \E k \in 1..MaxPromises :
              /\ promises'[k].state = "pending"
              /\ net'.down = Append(net.down, [ev |-> "read", id |-> 1,
                                               value |-> 0, tag |-> k])
    /\ (E_AgentReceive /\ Head(net.down).ev = "read")
       => LET m == Head(net.down)
          IN /\ Cardinality(OpsOf(hwOps', "digitalRead", m.id)) = 1
             /\ net'.up = Append(net.up, [ev |-> "read", id |-> m.id,
                                          value |-> hw[m.id].level, tag |-> m.tag])

\* The request of promise k, or the answer to it, is in flight.
InFlight(k) ==
    \/ \E i \in 1..Len(net.down) : net.down[i].ev = "read" /\ net.down[i].tag = k
    \/ \E i \in 1..Len(net.up) : net.up[i].ev = "read" /\ net.up[i].tag = k

\* C15 as stated: every read(id) made with the agent connected makes the
\* agent perform one digital read of pin id and send back one read message
\* {id, value}, and the future of that read(id) is resolved with that
\* value: a future whose request or answer is in flight is resolved by the
\* answer to its own request.
C15_ReadOwnAnswer ==
    [][/\ ReadRequestAnswered
       /\ E_ProxyReceive
          => \A k \in 1..MaxPromises :
                 (InFlight(k) /\ promises'[k].state = "resolved")
                 => Head(net.up).tag = k]_vars

\* C15 amended: with the agent connected, every read(id) makes the agent
\* perform one digital read of pin id and send back one read message
\* {id, value}; the first read message for id that reaches the proxy after
\* the call resolves the future with its value, be it the answer to the
\* future's own request or the answer to an earlier request for the id
\* that was still in flight; and while the agent stays connected every
\* pending future is resolved eventually.
C15_EndToEndRead ==
    /\ [][/\ ReadRequestAnswered
           /\ (E_ProxyReceive /\ Head(net.up).ev = "read")
              => \A k \in 1..MaxPromises :
                     (promises[k].state = "pending" /\ promises[k].id = Head(net.up).id)
                     => promises'[k] = Resolved(promises[k], Head(net.up).value)]_vars
    /\ \A k \in 1..MaxPromises :
           (promises[k].state = "pending" /\ AgentConnected)
           ~> (promises[k].state = "resolved" \/ ~AgentConnected)

\* C15 witness: the agent is connected, it has read pin 1 at level 1, and
\* its answer has just resolved a future of read(1) with 1; nothing is in
\* flight any more.
C15_Witness ==
    /\ AgentConnected
    /\ agentPins[1].mode = "in"
    /\ \E k \in 1..MaxPromises :
           promises[k] = [state |-> "resolved", client |-> 1, id |-> 1, value |-> 1]
    /\ net = NoTraffic

(***************************************************************************)
(* C16.  End-to-end write convergence: after any sequence of writes,       *)
(* disconnects and reconnects, with the agent connected and every message  *)
(* in flight processed, the hardware level of every pin id that the        *)
(* consumer has written is the value v in {0, 1} of its most recent        *)
(* write(id, v), and the pin is driven as a digital output.                *)
(***************************************************************************)
Quiescent == AgentConnected /\ net = NoTraffic

FailureStep ==
    \/ On_error
    \/ On_connect_error
    \/ \E reason \in DisconnectReasons : On_disconnect(reason)

C17_RetryScheduled ==
    [][FailureStep => /\ link'.timers = link.timers + 1
                      /\ link'.state = "closed"]_vars

(***************************************************************************)
(* C18.  Once the agent has handled an interrupt-arm message for a pin id, *)
(* every later edge on the pin makes the agent emit an interrupt-result    *)
(* message {id, value} with the pin's new level, whichever messages        *)
(* addressed the id before the arm message.                                *)
(***************************************************************************)
Armed(id) == agentPins[id].listeners > 0

C18_ArmedEdgeReported ==
    [][\A id \in PinIds :
          (Armed(id) /\ Edge(id))
              => \E i \in 1..Len(agentSent') :
                     agentSent'[i] = [ev |-> "interrupt", id |-> id,
                                      value |-> hw'[id].level]]_vars

(***************************************************************************)
(* C19.  validateConfig returns an error exactly when config.namespace is  *)
(* a non-empty string whose first character is not "/": it returns success *)
(* for an absent, non-string or empty namespace and for every namespace    *)
(* that begins with "/".  createClient then binds the client to the        *)
(* namespace "/raspberrypi" when the namespace is absent or empty.         *)
(***************************************************************************)
BadNamespace(v) ==
    /\ v.type = "string"
    /\ v.s \notin {"", "/", "/raspberrypi", "/gpio"}

AbsentOrEmpty(v) == v.type = "undefined" \/ (v.type = "string" /\ v.s = "")

C19_NamespaceValidation ==
    [][/\ \A v \in NamespaceValues :
              Service_validateConfig(v)
                  => validation'.result = IF BadNamespace(v) THEN "error"
                                          ELSE "success"
       /\ \A v \in NamespaceValues :
              (Service_createClient(v) /\ AbsentOrEmpty(v))
                  => /\ nsps'[DefaultNamespace] # 0
                     /\ activeClient' = Len(clients')
                     /\ clients'[activeClient'].namespace = nsps'[DefaultNamespace]
                     /\ activeClient' \in
                            namespaces'[nsps'[DefaultNamespace]].connection]_vars

\* The client in use was created from a configuration without a namespace and
\* is bound to "/raspberrypi", an agent is connected to it, and the
\* configuration validated last, "gpio", was refused.
C19_Witness ==
    /\ validation.created
    /\ validation.from = Absent
    /\ activeClient # 0
    /\ clients[activeClient].namespace = nsps[DefaultNamespace]
    /\ namespaces[nsps[DefaultNamespace]].connected # {}
    /\ validation.config = [type |-> "string", s |-> "gpio"]
    /\ validation.result = "error"

(***************************************************************************)
(* C20.  The local-GPIO service's createClient returns an error result,    *)
(* and throws nothing, whenever a configured pin id is not an integer or   *)
(* lies outside 0..27; when every configured id is an integer of 0..27 it  *)
(* returns success with a client whose map holds one handle per configured *)
(* id.                                                                     *)
(***************************************************************************)
ValidPinId(pin) == pin.kind = "integer" /\ pin.n \in 0..27

C20_LocalCreateClient ==
    [][LET pins == gpioPins'.config
       IN Local_createClient(pins)
              => IF \E i \in 1..Len(pins) : ~ValidPinId(pins[i])
                 THEN gpioPins'.result = "error"
                 ELSE /\ gpioPins'.result = "success"
                      /\ gpioPins'.ids = {pins[i].n : i \in 1..Len(pins)}]_vars

\* createClient has returned an error for the pins 27 and 1.5, in that order,
\* after it had opened pin 27.
C20_Witness ==
    /\ gpioPins.result = "error"
    /\ gpioPins.config = <<[kind |-> "integer", n |-> 27],
                           [kind |-> "fraction", n |-> 1]>>
    /\ gpioPins.ids = {}
    /\ gpioPins.exported = {27}

(***************************************************************************)
(* C21.  The agent validates pin ids before touching hardware: when it     *)
(* handles a read, write, writePwm or interrupt message whose id is not an *)
(* integer of the platform's range 0..27, it creates no pin handle and     *)
(* makes no call of the GPIO library.                                      *)
(***************************************************************************)
InvalidIdReceived ==
    /\ agentRecv'.ev # "none"
    /\ ~(agentRecv'.isNum /\ agentRecv'.id \in MIN_PIN_ID..MAX_PIN_ID)

C21_IdsValidated ==
    [][InvalidIdReceived => /\ hwOps' = <<>>
                            /\ agentPins' = agentPins
                            /\ hw' = hw]_vars

(***************************************************************************)
(* C22.  Mode legality: every write message the proxy emits is for a pin   *)
(* record of mode output, every writePwm message for one of mode pwm, and  *)
(* every read or interrupt message for one of mode input, in consumer      *)
(* calls and in replay, also when an id is addressed through operations of *)
(* different modes.                                                        *)
(***************************************************************************)
ModeOf(ev) ==
    CASE ev = "write" -> "out"
      [] ev = "writePwm" -> "pwm"
      [] ev \in {"read", "interrupt"} -> "in"

C22_ModeLegality ==
    [][\A i \in 1..Len(sent') :
          sent'[i].to # {}
              => clients'[1].pins[sent'[i].id].mode = ModeOf(sent'[i].ev)]_vars

(***************************************************************************)
(* C23.  Shadow value invariant: in every reachable state of the proxy a   *)
(* pin record of mode output or input holds a value of {0, 1} and a pin    *)
(* record of mode pwm a value of 0..255, and every write message the proxy *)
(* emits carries 0 or 1 and every writePwm message a value of 0..255.      *)
(***************************************************************************)
C23_ShadowValues ==
    /\ \A id \in PinIds :
           LET pin == clients[1].pins[id]
           IN /\ pin.mode \in {"out", "in"} => pin.value \in {0, 1}
              /\ pin.mode = "pwm" => pin.value \in 0..255
    /\ \A i \in 1..Len(sent) :
           /\ sent[i].ev = "write" => sent[i].value \in {0, 1}
           /\ sent[i].ev = "writePwm" => sent[i].value \in 0..255

(***************************************************************************)
(* C24.  The agent suppresses duplicate concurrent connect attempts: under *)
(* any sequence of error and disconnect events at most one timer of        *)
(* reconnect() is pending at any time (the socket being one object, it has *)
(* one state and so at most one attempt in progress).                      *)
(***************************************************************************)
C24_OneRetryPending == link.timers <= 1

(***************************************************************************)
(* C25.  Replay precedes new commands: the step that resolves a future of  *)
(* waitForConnection() is a connection event, and in that same step the    *)
(* proxy has emitted the whole replay of the connection, one message for   *)
(* each pin record and nothing else; the continuation of the future, and   *)
(* with it any command the consumer issues after it, runs in a later step. *)
(***************************************************************************)
C25_ReplayBeforeContinuation ==
    [][\A k \in 1..MaxWaits :
          (waits[k].state = "pending" /\ waits'[k].state = "resolved")
              => /\ Connection("pi1", DefaultNamespace)
                 /\ ReplayContent(sent', clients[1])]_vars

\* The last step was a connection event that resolved the future of
\* waitForConnection() and replayed both pin records.
C25_Witness ==
    /\ waits[1].state = "resolved"
    /\ To(1) = {"pi1"}
    /\ \A id \in PinIds : clients[1].pins[id].mode # "none"
    /\ Len(sent) = 2
    /\ sent[1].id # sent[2].id

(***************************************************************************)
(* C26.  The value of a pin record of mode output or pwm is changed only   *)
(* by a write or writePwm call of the consumer for that id: no message of  *)
(* a peer and no connection or disconnect event changes it.                *)
(***************************************************************************)
C26_ShadowFrame ==
    [][\A id \in PinIds :
          (/\ clients[1].pins[id].mode \in {"out", "pwm"}
           /\ clients'[1].pins[id].value # clients[1].pins[id].value)
              => \/ \E v \in BinaryValue : Call_write(1, id, v)
                 \/ \E v \in PwmValues : Call_writePwm(1, id, v)]_vars

(***************************************************************************)
(* C27.  A pin id gets a record in the proxy's table only through a call   *)
(* of the consumer (write, writePwm, read, setInterruptCallback) that      *)
(* names the id; no message of a peer adds a record, so that a replay      *)
(* emits no message for an id the consumer has not referenced.             *)
(***************************************************************************)
ConsumerNames(id) ==
    \/ \E v \in BinaryValue : Call_write(1, id, v)
    \/ \E v \in PwmValues : Call_writePwm(1, id, v)
    \/ Call_read(1, id)
    \/ \E cb \in Callbacks : Call_setInterruptCallback(1, id, cb)

C27_RecordsFromConsumer ==
    [][\A id \in PinIds :
          (clients[1].pins[id].mode = "none" /\ clients'[1].pins[id].mode # "none")
              => ConsumerNames(id)]_vars

(***************************************************************************)
(* C28.  End to end, one edge on an armed pin invokes the consumer's bound *)
(* callback at most once, however many interrupt-arm messages the agent    *)
(* has received for the id: the agent puts at most one interrupt message   *)
(* into the channel for the edge, and the proxy invokes the callback at    *)
(* most once for a message it receives.                                    *)
(***************************************************************************)
C28_OneCallbackPerEdge ==
    [][/\ E_ArmedEdge(1) => Len(net'.up) <= Len(net.up) + 1
       /\ E_ProxyReceive => Len(fired') <= 1]_vars

(***************************************************************************)
(* C29.  A read(id) future that is pending while an agent is connected,    *)
(* with neither its request nor an answer to it in flight (the peer        *)
(* disconnected after the call, or no peer was connected at the call), is  *)
(* resolved eventually, for every pin id, if the agent stays connected and *)
(* answers every read request it receives.                                 *)
(***************************************************************************)
\* Future k is left over from before the connection.
LeftPending(k) ==
    /\ promises[k].state = "pending"
    /\ AgentConnected
    /\ ~InFlight(k)

C29_PendingReadResolved ==
    \A k \in 1..MaxPromises :
        LeftPending(k) ~> (promises[k].state = "resolved" \/ ~AgentConnected)

\* The record of pin id is an input record with no callback bound: the one
\* kind of record for which a connection re-issues the read request.
ReadReplayed(id) ==
    /\ clients[1].pins[id].mode = "in"
    /\ clients[1].pins[id].callback = NoCallback

\* C29 amended: the same, for every pin id whose record is an input record
\* with no callback bound.
C29_PendingReadReissued ==
    \A k \in 1..MaxPromises :
        (LeftPending(k) /\ ReadReplayed(promises[k].id))
        ~> (promises[k].state = "resolved" \/ ~AgentConnected)

\* C29 witness: a future of read(1) is left over from before the connection,
\* and the agent's answer to the read request that the connection re-issued
\* in another future's name is on its way to the proxy.
C29_Witness ==
    /\ \E k \in 1..MaxPromises : LeftPending(k) /\ ReadReplayed(promises[k].id)
    /\ net.down = <<>>
    /\ Len(net.up) = 1
    /\ net.up[1].ev = "read"
    /\ net.up[1].id = 1

(***************************************************************************)
(* C30.  When the local-GPIO service's createClient returns an error       *)
(* because a configured pin id is invalid, no pin handle created during    *)
(* the call remains allocated: the pins that precede the invalid one in    *)
(* the configuration are not left exported.                                *)
(***************************************************************************)
C30_NoHandleLeftExported ==
    [][(Local_createClient(gpioPins'.config) /\ gpioPins'.result = "error")
          => gpioPins'.exported \subseteq gpioPins.exported]_vars

(***************************************************************************)
(* C31.  stopClient called with the handle of a proxy that a later         *)
(* createClient has superseded leaves the active proxy untouched: the      *)
(* active proxy's peers stay connected, its connection handler stays       *)
(* registered and its namespace stays registered on the server.            *)
(***************************************************************************)
C31_SupersededStopInert ==
    [][\A p \in ClientIds :
           (stopClient(p) /\ p < activeClient)
           => LET n == clients[activeClient].namespace
              IN /\ namespaces'[n].connected = namespaces[n].connected
                 /\ \A peer \in namespaces[n].connected :
                        sockets'[peer] = sockets[peer]
                 /\ namespaces'[n].connection = namespaces[n].connection
                 /\ nsps'[namespaces[n].name] = nsps[namespaces[n].name]]_vars

\* C31 witness: proxy 2 has superseded proxy 1 under the same name, its
\* connection handler and its namespace are registered and both peers are
\* connected to it, with its message listeners on their sockets: the state
\* in which a stopClient of proxy 1's handle must change nothing.
C31_Witness ==
    /\ Len(clients) = 2
    /\ activeClient = 2
    /\ namespaces[clients[1].namespace].name = namespaces[clients[2].namespace].name
    /\ nsps[namespaces[clients[2].namespace].name] = clients[2].namespace
    /\ namespaces[clients[2].namespace].connection = {2}
    /\ namespaces[clients[2].namespace].connected = Peers
    /\ \A peer \in Peers : 2 \in sockets[peer].read

====
